---- MODULE Spec2Model ----
(***************************************************************************)
(* SafeSwapEscrowBot: the escrow ledger, the deal life cycle and the       *)
(* reconciliation monitors, modelled from the bot's main module            *)
(* (src/unnamed/part_000) and from the settlement functions of             *)
(* src/btcwalletclient_wif.py.                                             *)
(*                                                                         *)
(* Amounts are integer satoshis.  The bot stores BTC floats that are       *)
(* satoshi values divided by 1e8; every comparison the bot makes on them   *)
(* is modelled by the same comparison on the satoshi values                *)
(* (x <= a, x >= a + fee), and a comparison with a float product keeps the *)
(* side the product is rounded to (RoundsUp99).                            *)
(*                                                                         *)
(* Scheduling: python-telegram-bot processes updates one at a time, so a   *)
(* handler runs to completion (across its awaits) before the next update   *)
(* is handled; job-queue callbacks (the monitors) are separate tasks of    *)
(* the same event loop and interleave with a handler at its awaits.        *)
(***************************************************************************)
EXTENDS Integers, FiniteSets, Sequences, TLC

\* ------------------------------------------------------------------ bounds
\* number of external on-chain deposits the environment makes
MaxDeposits == 1
\* largest small balance a settlement function is applied to
MaxBalance == 1900
\* order of the small group standing in for the order of secp256k1
CurveOrder == 7
\* number of unspent outputs a built transaction spends at most
MaxInputs == 2
\* number of deposit notifications followed in the group chat
MaxMessages == 2
\* number of times the buyer's accept is followed
MaxAccepts == 2
MaxPrompts == 2
MaxWalletRows == 2

\* ------------------------------------------------------- program constants
\* dust floor of every settlement function
DUST == 546
\* fixed fee cap of every settlement function
MAX_FEE == 250
\* balance the buyer-forward task and deal creation require before sending
FORWARD_MIN == 250
\* the two-output minimum of the split functions
TWO_DUST == 1092

\* ------------------------------------------------------------ input sets
Users == {"u1", "u2"}
NoUser == "none"
\* u1 starts the deal, u2 is the recipient named in it
Initiator == "u1"
Recipient == "u2"
Roles == {"buyer", "seller"}
\* nominal amounts a deal can be created with, in satoshis
Amounts == {20000}
\* values of the deposits the environment makes
DepositAmounts == {20789, 21000}
\* resolutions a dispute can be resolved with
Resolutions == {"REFUNDED", "RESOLVED"}

\* amounts a withdrawal of a specific amount is requested with
WithdrawAmounts == {545, 767, 1000}
\* balances the settlement functions are applied to: the small ones, and the
\* ones around the smallest balance whose 5% share reaches the dust floor
Balances == (0 .. MaxBalance) \cup
            {(DUST * 100) \div 5 + d : d \in 0 .. MAX_FEE + 4}
\* the chain data providers, in the order get_btc_balance_from_blockchain
\* lists them
apis == <<"Blockchain.info", "Blockstream", "Mempool.space">>
Providers == {apis[i] : i \in DOMAIN apis}
\* the settlement functions
SettleOps == {"max", "exact", "split95", "split50"}

Wallets == {"w1", "w2", "esc"}
NoWallet == "nowallet"
NoDeal == [status |-> "NONE"]

\* wallet row of a user: SELECT ... FROM wallets WHERE user_id = ? AND crypto_type = 'BTC'
UserWallet(u) == IF u = "u1" THEN "w1" ELSE IF u = "u2" THEN "w2" ELSE NoWallet

VARIABLES
    registered,   \* users table: the users known to the bot
    wallets,      \* wallets table: the wallet rows that exist
    balance,      \* wallets.balance, per wallet
    pending,      \* wallets.pending_balance, per wallet
    mon,          \* wallet_monitoring.current_balance, per wallet
    chain,        \* unspent on-chain value of each wallet's address
    deal,         \* transactions row of the deal (NoDeal before creation)
    disputes,     \* whether the disputes table holds a row for the deal
    payouts,      \* the payout transactions broadcast so far
    lock,         \* db_write_lock: "free" or the name of its holder
    hung,         \* the event loop thread is blocked forever
    handler,      \* the update handler that is suspended at an await
    dispConv,     \* per user: the deal chosen in the dispute conversation
    bf,           \* buyer-forward monitor task
    sweep,        \* full-sweep monitor task
    deposits,     \* number of external deposits made
    msgs,         \* the deposit notifications sent to the deal's group chat
    debits,       \* what accept and buyer-forward took off the ledger for the deal
    withdrawConv, \* the user who is in the withdrawal conversation (NoUser: nobody)
    owned,        \* per user: the number of BTC rows of the wallets table with its user_id
    prompts,      \* per user: the "SegWit" confirmation buttons on the user's screen
    event         \* the last operation a handler carried out (refusals leave no trace)

vars == <<registered, wallets, balance, pending, mon, chain, deal, disputes,
          payouts, lock, hung, handler, dispConv, bf, sweep, deposits, msgs, debits,
          withdrawConv, owned, prompts, event>>

Idle == [pc |-> "idle"]
\* no accept applied, nothing forwarded
NoDebits == [accepts |-> 0, forwarded |-> 0]
NoEvent == [op |-> "none"]

Min(a, b) == IF a < b THEN a ELSE b

\* fee_amount = amount * 0.05
fee_amount(amount) == (amount * 5) \div 100

\* ------------------------------------------------------------------- Init
\* empty database, nothing on chain, no task running
Init ==
    /\ registered = {}
    /\ wallets = {}
    /\ balance = [w \in Wallets |-> 0]
    /\ pending = [w \in Wallets |-> 0]
    /\ mon = [w \in Wallets |-> 0]
    /\ chain = [w \in Wallets |-> 0]
    /\ deal = NoDeal
    /\ disputes = FALSE
    /\ payouts = {}
    /\ lock = "free"
    /\ hung = FALSE
    /\ handler = Idle
    /\ dispConv = [u \in Users |-> FALSE]
    /\ bf = Idle
    /\ sweep = Idle
    /\ deposits = 0
    /\ msgs = <<>>
    /\ debits = NoDebits
    /\ withdrawConv = NoUser
    /\ owned = [u \in Users |-> 0]
    /\ prompts = [u \in Users |-> 0]
    /\ event = NoEvent

\* the event loop can run a new update handler
LoopFree == ~hung /\ handler.pc = "idle"
\* the event loop can resume a task
LoopRuns == ~hung

\* ------------------------------------------------- settlement functions
Failed(why) == [ok |-> FALSE, error |-> why, amount_sent |-> 0, fee |-> 0, change |-> 0]

\* send_max_btc_auto sending the whole balance without taking the fee off it
send_max_btc_auto_feeOnTop(B, net) ==
    IF ~net \/ B = 0 THEN Failed("network_or_no_utxos")
    ELSE LET transaction_fee == Min(MAX_FEE, B - DUST)
             max_sendable == B
         IN  IF transaction_fee < 1 THEN Failed("fee_too_low")
             ELSE IF max_sendable < DUST THEN Failed("below_dust")
             ELSE [ok |-> TRUE, error |-> "", amount_sent |-> max_sendable,
                   fee |-> transaction_fee, change |-> 0]

\* send_max_btc_auto on a source address holding B satoshis; net: the UTXO
\* query and the broadcast both succeed
send_max_btc_auto(B, net) ==
    IF ~net \/ B = 0 THEN Failed("network_or_no_utxos")
    ELSE LET transaction_fee == Min(MAX_FEE, B - DUST)
             max_sendable == B - transaction_fee
         IN  IF transaction_fee < 1 THEN Failed("fee_too_low")
             ELSE IF max_sendable < DUST THEN Failed("below_dust")
             ELSE [ok |-> TRUE, error |-> "", amount_sent |-> max_sendable,
                   fee |-> transaction_fee, change |-> 0]

\* the amounts of the model, written as BTC decimals with eight places, whose
\* product with 1e8 in double precision lies below the integer:
\* 0.00000767 * 1e8 = 766.9999999999999 (20000, 21000, 545, 546, 1000 are exact)
TruncatedDown == {767}

\* amount_to_send_satoshis = int(amount_btc * 1e8), amount_btc given here as
\* the number of 1e-8 units of the decimal
to_satoshis(amount_btc) ==
    IF amount_btc \in TruncatedDown THEN amount_btc - 1 ELSE amount_btc

\* send_specific_btc_amount of amount_btc from an address holding B satoshis
send_specific_btc_amount(B, amount_btc, net) ==
    IF ~net \/ B = 0 THEN Failed("network_or_no_utxos")
    ELSE LET amount_to_send_satoshis == to_satoshis(amount_btc)
             total_needed == amount_to_send_satoshis + MAX_FEE
             change_amount == B - amount_to_send_satoshis - MAX_FEE
         IN  IF B < total_needed THEN Failed("insufficient")
             ELSE IF amount_to_send_satoshis < DUST THEN Failed("below_dust")
             ELSE IF change_amount >= DUST
                  THEN [ok |-> TRUE, error |-> "", amount_sent |-> amount_to_send_satoshis,
                        fee |-> MAX_FEE, change |-> change_amount]
                  ELSE [ok |-> TRUE, error |-> "", amount_sent |-> amount_to_send_satoshis,
                        fee |-> MAX_FEE + change_amount, change |-> 0]

SplitFailed(why) == [ok |-> FALSE, error |-> why, seller_amount |-> 0,
                     fee_wallet_amount |-> 0, transaction_fee |-> 0]

\* the split without the dust check of the fee wallet's output
split_payout_noFeeWalletCheck(B, pct, net) ==
    IF ~net \/ B = 0 THEN SplitFailed("network_or_no_utxos")
    ELSE LET transaction_fee == Min(MAX_FEE, B - TWO_DUST)
             max_sendable == B - transaction_fee
             seller_amount == (max_sendable * pct) \div 100
             fee_wallet_amount == max_sendable - seller_amount
         IN  IF transaction_fee < 1 THEN SplitFailed("fee_too_low")
             ELSE IF max_sendable < TWO_DUST THEN SplitFailed("below_dust")
             ELSE IF seller_amount < DUST THEN SplitFailed("seller_below_dust")
             ELSE [ok |-> TRUE, error |-> "", seller_amount |-> seller_amount,
                   fee_wallet_amount |-> fee_wallet_amount, transaction_fee |-> transaction_fee]

\* the two-output split shared by send_batch_95_5_split (pct = 95) and
\* send_dispute_refund_50_50 (pct = 50), on an address holding B satoshis
split_payout(B, pct, net) ==
    IF ~net \/ B = 0 THEN SplitFailed("network_or_no_utxos")
    ELSE LET transaction_fee == Min(MAX_FEE, B - TWO_DUST)
             max_sendable == B - transaction_fee
             seller_amount == (max_sendable * pct) \div 100
             fee_wallet_amount == max_sendable - seller_amount
         IN  IF transaction_fee < 1 THEN SplitFailed("fee_too_low")
             ELSE IF max_sendable < TWO_DUST THEN SplitFailed("below_dust")
             ELSE IF seller_amount < DUST THEN SplitFailed("seller_below_dust")
             ELSE IF fee_wallet_amount < DUST THEN SplitFailed("fee_below_dust")
             ELSE [ok |-> TRUE, error |-> "", seller_amount |-> seller_amount,
                   fee_wallet_amount |-> fee_wallet_amount, transaction_fee |-> transaction_fee]

send_batch_95_5_split(B, net) == split_payout(B, 95, net)
send_dispute_refund_50_50(B, net) == split_payout(B, 50, net)

\* the chain after wallet src spent everything it held: `left` stays on src
\* (change), `amt` arrives at dst when dst is an address of a wallet row
Spend(ch, src, dst, amt, left) ==
    [w \in Wallets |->
        IF w = src /\ w = dst THEN left + amt
        ELSE IF w = src THEN left
        ELSE IF w = dst THEN ch[w] + amt
        ELSE ch[w]]

\* a task's built transaction loses its inputs when another operation's
\* broadcast spends the unspent outputs of the address it was built from
InputsSpent(task, src) ==
    IF task.pc = "broadcast" /\ task.w = src THEN [task EXCEPT !.spent = TRUE] ELSE task

\* ------------------------------------------------------- ledger functions
\* subtract_wallet_balance: the (removed) balance check never refuses
subtract_wallet_balance(bal, wallet_id, amount) ==
    [bal EXCEPT ![wallet_id] = bal[wallet_id] - amount]

\* add_to_pending_balance on the wallet row of user_id
add_to_pending_balance(pend, user_id, amount) ==
    [pend EXCEPT ![UserWallet(user_id)] = pend[UserWallet(user_id)] + amount]

\* ---------------------------------------------------------- environment
\* /start (ensure_user_and_process_pending): the user row is created; the
\* deals naming the user as an unregistered seller are linked only when
\* the user has a wallet row for add_to_pending_balance
process_pending_recipient(d, pend, u, ws) ==
    IF d.status # "NONE" /\ d.seller = NoUser /\ d.recipient = u /\ UserWallet(u) \in ws
    THEN <<[d EXCEPT !.seller = u, !.recipient = NoUser],
           add_to_pending_balance(pend, u, d.amount)>>
    ELSE <<d, pend>>

Register(u) ==
    /\ LoopFree
    /\ registered' = registered \cup {u}
    /\ LET r == process_pending_recipient(deal, pending, u, wallets)
       IN deal' = r[1] /\ pending' = r[2]
    /\ UNCHANGED <<owned, prompts, msgs, withdrawConv, debits, wallets, balance, mon, chain, disputes, payouts, lock, hung,
                   handler, dispConv, bf, sweep, deposits, event>>

\* create_wallet called for each user of `us` for whom the caller's SELECT
\* found no wallet row: one row is inserted per call
wallets_created(ow, ws, us) ==
    [u \in Users |-> IF u \in us /\ UserWallet(u) \notin ws THEN ow[u] + 1 ELSE ow[u]]

\* wallet_callback create_wallet_BTC / confirm_wallet_BTC_segwit for a user
\* without a BTC wallet: create_wallet, then process_pending_recipient
CreateWallet(u) ==
    /\ LoopFree
    /\ u \in registered
    /\ UserWallet(u) \notin wallets
    /\ wallets' = wallets \cup {UserWallet(u)}
    /\ owned' = [owned EXCEPT ![u] = @ + 1]
    /\ LET r == process_pending_recipient(deal, pending, u, wallets')
       IN deal' = r[1] /\ pending' = r[2]
    /\ UNCHANGED <<prompts, msgs, withdrawConv, debits, registered, balance, mon, chain, disputes, payouts, lock, hung,
                   handler, dispConv, bf, sweep, deposits, event>>

\* somebody pays `a` satoshis to the address of wallet w
Deposit(w, a) ==
    /\ deposits < MaxDeposits
    /\ w \in wallets
    /\ chain' = [chain EXCEPT ![w] = chain[w] + a]
    /\ deposits' = deposits + 1
    /\ UNCHANGED <<owned, prompts, msgs, withdrawConv, debits, registered, wallets, balance, pending, mon, deal, disputes,
                   payouts, lock, hung, handler, dispConv, bf, sweep, event>>

\* ---------------------------------------------------------- deal creation
\* create_transaction: the row inserted by confirm_transaction
create_transaction(role, amount, rcpt, deducted_amount) ==
    [status    |-> "PENDING",
     seller    |-> IF role = "seller" THEN Initiator ELSE rcpt,
     buyer     |-> IF role = "seller" THEN rcpt ELSE Initiator,
     initiator |-> Initiator,
     recipient |-> IF rcpt = NoUser THEN Recipient ELSE NoUser,
     amount    |-> amount,
     fee       |-> fee_amount(amount),
     wallet    |-> UserWallet(Initiator),
     escrow    |-> "esc",
     deducted  |-> deducted_amount,
     auto      |-> FALSE,
     group     |-> FALSE,
     deposit_99_notified |-> FALSE,
     last_partial_balance_notified |-> 0]

\* outcomes of the database in the part of confirm_transaction after the
\* deduction: every statement succeeds; add_to_pending_balance of the
\* recipient raises sqlite3.Error (also on its retry); the INSERT of
\* create_transaction raises sqlite3.Error and the function returns None
CreateOutcomes == {"ok", "pending_error", "insert_error"}
CreateFailures == CreateOutcomes \ {"ok"}

\* the part of confirm_transaction after the deduction: the recipient's
\* pending credit (its wallet row is created when missing), the deal row and,
\* for a registered recipient, the attempt to create the deal's group chat,
\* whose id is stored in the row only when every call of the attempt succeeds
CreateTail(role, amount, rcpt, deducted_amount, db) ==
    /\ db = "pending_error" => rcpt # NoUser
    /\ wallets' = wallets \cup {UserWallet(Initiator), "esc"}
                          \cup (IF rcpt # NoUser THEN {UserWallet(rcpt)} ELSE {})
    /\ owned' = wallets_created(owned, wallets, {Initiator, rcpt})
    /\ IF db = "pending_error"
       THEN \* add_back = add_to_pending_balance(user.id, crypto_type, total)
            /\ pending' = add_to_pending_balance(pending, Initiator,
                                                 amount + fee_amount(amount))
            /\ UNCHANGED deal
       ELSE IF db = "insert_error"
       THEN /\ pending' = add_to_pending_balance(
                              IF rcpt # NoUser
                              THEN add_to_pending_balance(pending, rcpt,
                                                          amount + fee_amount(amount))
                              ELSE pending,
                              Initiator, amount + fee_amount(amount))
            /\ UNCHANGED deal
       ELSE /\ pending' = IF rcpt # NoUser
                          THEN add_to_pending_balance(pending, rcpt,
                                                      amount + fee_amount(amount))
                          ELSE pending
            /\ \E group_created \in (IF rcpt # NoUser THEN BOOLEAN ELSE {FALSE}) :
                  deal' = [create_transaction(role, amount, rcpt, deducted_amount)
                              EXCEPT !.group = group_created]

\* transaction_callback, data = confirm_transaction, up to its first await
CreateDeal(role, amount, db) ==
    /\ LoopFree
    /\ deal = NoDeal
    /\ "esc" \notin wallets
    /\ registered' = registered \cup {Initiator}
    /\ LET total == amount + fee_amount(amount)
           recipient_user_id == IF Recipient \in registered THEN Recipient ELSE NoUser
           wallet_id == UserWallet(Initiator)
           current_balance == IF wallet_id \in wallets THEN balance[wallet_id] ELSE 0
       IN
       IF role = "buyer" /\ 0 < current_balance /\ current_balance < total
          /\ current_balance > FORWARD_MIN
       THEN \* await asyncio.to_thread(send_max_btc_auto, ...)
            /\ handler' = [pc |-> "create_send", role |-> role, amount |-> amount,
                           rcpt |-> recipient_user_id, bal |-> current_balance]
            /\ db = "ok"
            /\ wallets' = wallets \cup {wallet_id, "esc"}
            /\ owned' = wallets_created(owned, wallets, {Initiator})
            /\ UNCHANGED <<balance, pending, deal, event>>
       ELSE LET deducted_amount ==
                    IF role = "buyer" /\ current_balance >= total THEN total ELSE 0
            IN /\ balance' = IF deducted_amount > 0
                             THEN subtract_wallet_balance(balance, wallet_id, deducted_amount)
                             ELSE balance
               /\ CreateTail(role, amount, recipient_user_id, deducted_amount, db)
               /\ event' = [op |-> "create", by |-> Initiator, res |-> db,
                            role |-> role, bal |-> current_balance,
                            debited |-> deducted_amount, forwarded |-> 0]
               /\ UNCHANGED handler
    /\ UNCHANGED <<prompts, msgs, withdrawConv, debits, mon, chain, disputes, payouts, lock, hung,
                   dispConv, bf, sweep, deposits>>

\* the worker thread of the partial transfer runs send_max_btc_auto from the
\* initiator's address to the escrow address
CreateSend(net) ==
    /\ handler.pc = "create_send"
    /\ LET r == send_max_btc_auto(chain[UserWallet(Initiator)], net)
       IN /\ chain' = IF r.ok
                      THEN Spend(chain, UserWallet(Initiator), "esc", r.amount_sent, 0)
                      ELSE chain
          /\ handler' = [pc |-> "create_resume", role |-> handler.role,
                         amount |-> handler.amount, rcpt |-> handler.rcpt,
                         bal |-> handler.bal, res |-> r]
          /\ bf' = IF r.ok THEN InputsSpent(bf, UserWallet(Initiator)) ELSE bf
    /\ UNCHANGED <<owned, prompts, msgs, withdrawConv, debits, registered, wallets, balance, pending, mon, deal, disputes, payouts,
                   lock, hung, dispConv, sweep, deposits, event>>

\* confirm_transaction resumes with the transfer result
CreateResume(db) ==
    /\ ~hung
    /\ handler.pc = "create_resume"
    /\ handler' = Idle
    /\ IF handler.res.ok
       THEN LET btc_transferred == handler.res.amount_sent
            IN /\ balance' = subtract_wallet_balance(balance, UserWallet(Initiator),
                                                     btc_transferred)
               /\ CreateTail(handler.role, handler.amount, handler.rcpt, btc_transferred, db)
               /\ event' = [op |-> "create", by |-> Initiator, res |-> db,
                            role |-> handler.role, bal |-> handler.bal,
                            debited |-> btc_transferred, forwarded |-> btc_transferred]
       ELSE /\ db = "ok"
            /\ event' = [op |-> "create", by |-> Initiator, res |-> "transfer_failed"]
            /\ UNCHANGED <<wallets, owned, balance, pending, deal>>
    /\ UNCHANGED <<prompts, msgs, withdrawConv, debits, registered, mon, chain, disputes, payouts, lock, hung, dispConv,
                   bf, sweep, deposits>>

\* ------------------------------------------------- accept, decline, cancel
Reply(o, u, r) == [op |-> o, by |-> u, res |-> r]

\* wallet row credited by accept: transaction[10], the deal's wallet_id
AcceptCreditWallet(d) == d.wallet

\* outcomes of the database during accept: every statement succeeds; the
\* escrow credit raises sqlite3.Error and the compensating
\* subtract_wallet_balance(buyer_wallet_id, -amount) succeeds; the credit
\* fails and the compensation fails too (its result is not looked at)
DbOutcomes == {"ok", "credit_error", "restore_error"}

\* transaction_callback, data = accept_transaction_<id>
Accept(u, db) ==
    /\ LoopFree
    /\ deal # NoDeal
    /\ u \in registered
    /\ debits.accepts < MaxAccepts
    /\ LET buyer_wallet_id == UserWallet(u)
           wallet_id == AcceptCreditWallet(deal)
       IN
       IF deal.buyer # u THEN
            UNCHANGED <<balance, event, debits>>
       ELSE IF deal.status # "PENDING" THEN
            UNCHANGED <<balance, event, debits>>
       ELSE IF buyer_wallet_id \notin wallets THEN
            UNCHANGED <<balance, event, debits>>
       ELSE IF balance[buyer_wallet_id] < deal.amount THEN
            UNCHANGED <<balance, event, debits>>
       ELSE IF db = "credit_error" THEN
            UNCHANGED <<balance, event, debits>>
       ELSE IF db = "restore_error" THEN
            /\ balance' = subtract_wallet_balance(balance, buyer_wallet_id, deal.amount)
            /\ event' = Reply("accept", u, "error")
            /\ UNCHANGED debits
       ELSE /\ balance' = LET b1 == subtract_wallet_balance(balance, buyer_wallet_id,
                                                            deal.amount)
                          IN [b1 EXCEPT ![wallet_id] = b1[wallet_id] + deal.amount]
            /\ event' = Reply("accept", u, "ok")
            /\ debits' = [debits EXCEPT !.accepts = @ + 1]
    /\ UNCHANGED <<owned, prompts, msgs, withdrawConv, registered, wallets, pending, mon, chain, deal, disputes, payouts,
                   lock, hung, handler, dispConv, bf, sweep, deposits>>

\* update_transaction_status for a status other than COMPLETED
update_transaction_status(d, status) == [d EXCEPT !.status = status]

\* transaction_callback, data = decline_transaction_<id>
Decline(u) ==
    /\ LoopFree
    /\ deal # NoDeal
    /\ u \in registered
    /\ IF deal.buyer # u THEN
            UNCHANGED <<deal, balance, pending, event>>
       ELSE IF deal.status # "PENDING" THEN
            UNCHANGED <<deal, balance, pending, event>>
       ELSE /\ deal' = update_transaction_status(deal, "CANCELLED")
            /\ balance' = [balance EXCEPT ![deal.wallet] = balance[deal.wallet] + deal.amount]
            /\ pending' = [pending EXCEPT ![deal.wallet] = pending[deal.wallet] - deal.amount]
            /\ event' = Reply("decline", u, "ok")
    /\ UNCHANGED <<owned, prompts, msgs, withdrawConv, debits, registered, wallets, mon, chain, disputes, payouts, lock, hung,
                   handler, dispConv, bf, sweep, deposits>>

\* the caller check of cancel_transaction
CancelAllowed(d, u) == d.initiator = u
\* mutant: cancel gives back the nominal amount, as decline does
CancelRefund_amount(d) == d.amount

\* the amount cancel_transaction gives back
CancelRefund(d) == d.deducted

\* transaction_callback, data = cancel_transaction_<id>
Cancel(u) ==
    /\ LoopFree
    /\ deal # NoDeal
    /\ u \in registered
    /\ IF ~CancelAllowed(deal, u) THEN
            UNCHANGED <<deal, balance, pending, event>>
       ELSE IF deal.status # "PENDING" THEN
            UNCHANGED <<deal, balance, pending, event>>
       ELSE /\ deal' = update_transaction_status(deal, "CANCELLED")
            /\ balance' = [balance EXCEPT ![deal.wallet] = balance[deal.wallet] + CancelRefund(deal)]
            /\ pending' = [pending EXCEPT ![deal.wallet] = pending[deal.wallet] - CancelRefund(deal)]
            /\ event' = Reply("cancel", u, "ok")
    /\ UNCHANGED <<owned, prompts, msgs, withdrawConv, debits, registered, wallets, mon, chain, disputes, payouts, lock, hung,
                   handler, dispConv, bf, sweep, deposits>>

\* ------------------------------------------------------------------ release
\* mutant: the release_ branch keeps only its EXPIRED check
ReleaseStatusOk_onlyExpired(status) == status # "EXPIRED"

\* the status check of the release_ branch (EXPIRED, then != PENDING)
ReleaseStatusOk(status) == status # "EXPIRED" /\ status = "PENDING"

\* amounts for which the float product amount * 0.99 lies above the exact
\* value: 0.0002 * 0.99 evaluates to 0.00019800000000000002
RoundsUp99 == {a \in Amounts : a = 20000}

\* the funding check of the release_ branch on the cached (ledger) balance of
\* the escrow wallet: threshold_99 = amount * 0.99, and
\* balance_btc < threshold_99 rejects
ReleaseFunded(d, balance_btc) ==
    IF d.amount \in RoundsUp99
    THEN ~(100 * balance_btc <= 99 * d.amount)
    ELSE ~(100 * balance_btc < 99 * d.amount)

\* a payout broadcast: who asked, the wallet spent, the wallet paid, the outputs
Payout(kind, u, src, to, r) ==
    [kind |-> kind, by |-> u, src |-> src, to |-> to,
     seller_amount |-> r.seller_amount, fee_wallet_amount |-> r.fee_wallet_amount]

\* release_callback, data = release_<id>: the checks, send_btc_to_seller and
\* update_transaction_status(id, 'COMPLETED'), which takes db_write_lock and,
\* holding it, calls increment_stat, which takes db_write_lock again
Release(u, net) ==
    /\ LoopFree
    /\ deal # NoDeal
    /\ u \in registered
    /\ IF deal.buyer # u THEN
            UNCHANGED <<chain, payouts, lock, hung, event, bf>>
       ELSE IF ~ReleaseStatusOk(deal.status) THEN
            UNCHANGED <<chain, payouts, lock, hung, event, bf>>
       ELSE IF ~ReleaseFunded(deal, balance[deal.escrow]) THEN
            UNCHANGED <<chain, payouts, lock, hung, event, bf>>
       ELSE IF UserWallet(deal.seller) \notin wallets THEN
            UNCHANGED <<chain, payouts, lock, hung, event, bf>>
       ELSE LET r == send_batch_95_5_split(chain[deal.escrow], net)
            IN IF r.ok
               THEN /\ chain' = Spend(chain, deal.escrow, UserWallet(deal.seller),
                                      r.seller_amount, 0)
                    /\ payouts' = payouts \cup
                          {Payout("release", u, deal.escrow, UserWallet(deal.seller), r)}
                    /\ lock' = "update_transaction_status"
                    /\ hung' = TRUE
                    /\ bf' = InputsSpent(bf, deal.escrow)
                    /\ UNCHANGED event
               ELSE UNCHANGED <<chain, payouts, lock, hung, event, bf>>
    /\ UNCHANGED <<owned, prompts, msgs, withdrawConv, debits, registered, wallets, balance, pending, mon, deal, disputes,
                   handler, dispConv, sweep, deposits>>

\* ----------------------------------------------------------------- disputes
\* dispute_selection_callback, data = select_dispute_<id>, on a deal listed
\* by dispute_command for the user
DisputeSelect(u) ==
    /\ LoopFree
    /\ deal # NoDeal
    /\ u \in {deal.seller, deal.buyer}
    /\ IF deal.status = "DISPUTED" THEN
            UNCHANGED <<dispConv, event>>
       ELSE IF deal.status # "PENDING" THEN
            UNCHANGED <<dispConv, event>>
       ELSE /\ dispConv' = [dispConv EXCEPT ![u] = TRUE]
            /\ event' = Reply("dispute", u, "selected")
    /\ UNCHANGED <<owned, prompts, msgs, withdrawConv, debits, registered, wallets, balance, pending, mon, chain, deal, disputes,
                   payouts, lock, hung, handler, bf, sweep, deposits>>

\* create_dispute: inserts the dispute row and sets the deal DISPUTED
create_dispute(d) == [d EXCEPT !.status = "DISPUTED"]

\* dispute_evidence: the last step of the conversation files the dispute
DisputeEvidence(u) ==
    /\ LoopFree
    /\ dispConv[u]
    /\ disputes' = TRUE
    /\ deal' = create_dispute(deal)
    /\ dispConv' = [dispConv EXCEPT ![u] = FALSE]
    /\ event' = Reply("dispute", u, "created")
    /\ UNCHANGED <<owned, prompts, msgs, withdrawConv, debits, registered, wallets, balance, pending, mon, chain, payouts, lock,
                   hung, handler, bf, sweep, deposits>>

\* the wallet resolve_dispute hands to refund_btc_to_buyer: the deal's wallet_id
RefundSourceWallet(d) == d.wallet

\* resolve_dispute(dispute_id, resolution, notes)
ResolveDispute(resolution, net) ==
    /\ LoopFree
    /\ disputes
    /\ IF resolution = "REFUNDED"
       THEN IF UserWallet(deal.seller) \notin wallets
            THEN UNCHANGED <<deal, chain, payouts, event, bf>>
            ELSE LET src == RefundSourceWallet(deal)
                     r == send_dispute_refund_50_50(chain[src], net)
                 IN IF r.ok
                    THEN /\ chain' = Spend(chain, src, UserWallet(deal.seller),
                                           r.seller_amount, 0)
                         /\ payouts' = payouts \cup
                               {Payout("dispute", NoUser, src, UserWallet(deal.seller), r)}
                         /\ deal' = [deal EXCEPT !.status = resolution]
                         /\ event' = Reply("resolve", NoUser, "refunded")
                         /\ bf' = InputsSpent(bf, src)
                    ELSE UNCHANGED <<deal, chain, payouts, event, bf>>
       ELSE /\ deal' = [deal EXCEPT !.status = resolution]
            /\ event' = Reply("resolve", NoUser, "ok")
            /\ UNCHANGED <<chain, payouts, bf>>
    /\ UNCHANGED <<owned, prompts, msgs, withdrawConv, debits, registered, wallets, balance, pending, mon, disputes, lock, hung,
                   handler, dispConv, sweep, deposits>>

\* ------------------------------------------------- buyer-forward monitor
\* mutant: the deal query also asks for a deduction made at creation
BuyerForwardDue_deducted(d) ==
    d.status = "PENDING" /\ ~d.auto /\ d.buyer # NoUser /\ d.deducted > 0

\* the deal query of the task: PENDING, not auto_transferred, of a buyer
BuyerForwardDue(d) == d.status = "PENDING" /\ ~d.auto /\ d.buyer # NoUser

\* monitor_buyer_wallets_callback: a cycle starts, reads the deal and its
\* wallet_id and hands the balance query of that wallet to a worker thread
BFStart ==
    /\ LoopRuns
    /\ bf.pc = "idle"
    /\ deal # NoDeal
    /\ BuyerForwardDue(deal)
    /\ bf' = [pc |-> "query", w |-> deal.wallet]
    /\ UNCHANGED <<owned, prompts, msgs, withdrawConv, debits, registered, wallets, balance, pending, mon, chain, deal, disputes,
                   payouts, lock, hung, handler, dispConv, sweep, deposits, event>>

\* the balance query answers (or fails) and the task chooses the transfer
BFQuery(net) ==
    /\ LoopRuns
    /\ bf.pc = "query"
    /\ LET balance_satoshis == IF net THEN chain[bf.w] ELSE 0
       IN bf' = IF balance_satoshis <= FORWARD_MIN THEN Idle
                ELSE [pc |-> "send", w |-> bf.w,
                      method |-> IF balance_satoshis <= deal.amount THEN "max" ELSE "exact"]
    /\ UNCHANGED <<owned, prompts, msgs, withdrawConv, debits, registered, wallets, balance, pending, mon, chain, deal, disputes,
                   payouts, lock, hung, handler, dispConv, sweep, deposits, event>>

\* mutant: any answer of the provider is taken for an accepted transaction
BroadcastAccepted_anyAnswer(task, net) == net

\* broadcast_transaction: one POST; the txid is returned only on status 200,
\* which the provider answers when the inputs are still unspent
BroadcastAccepted(task, net) == net /\ ~task.spent

\* the worker thread runs the chosen settlement function: it fetches the
\* unspent outputs of the address, validates the spend and builds and signs
\* the transaction from all of them
BFSend(net) ==
    /\ bf.pc = "send"
    /\ LET r == IF bf.method = "max"
                THEN send_max_btc_auto(chain[bf.w], net)
                ELSE send_specific_btc_amount(chain[bf.w], deal.amount, net)
       IN bf' = IF r.ok
                THEN [pc |-> "broadcast", w |-> bf.w, method |-> bf.method,
                      utxos |-> chain[bf.w], amount_sent |-> r.amount_sent,
                      change |-> r.change, spent |-> FALSE]
                ELSE Idle
    /\ UNCHANGED <<owned, prompts, msgs, withdrawConv, debits, registered, wallets, balance, pending, mon, chain, deal, disputes,
                   payouts, lock, hung, handler, dispConv, sweep, deposits, event>>

\* the worker thread broadcasts the transaction it built; outputs that
\* arrived at the address after the build are not among its inputs
BFBroadcast(net) ==
    /\ bf.pc = "broadcast"
    /\ IF BroadcastAccepted(bf, net)
       THEN /\ chain' = Spend(chain, bf.w, deal.escrow, bf.amount_sent,
                              bf.change + chain[bf.w] - bf.utxos)
            /\ bf' = [pc |-> "write", w |-> bf.w, amount_sent |-> bf.amount_sent]
       ELSE /\ bf' = Idle
            /\ UNCHANGED chain
    /\ UNCHANGED <<owned, prompts, msgs, withdrawConv, debits, registered, wallets, balance, pending, mon, deal, disputes, payouts,
                   lock, hung, handler, dispConv, sweep, deposits, event>>

\* the ledger write after a successful transfer, under db_write_lock
BFWrite ==
    /\ LoopRuns
    /\ bf.pc = "write"
    /\ lock = "free"
    /\ balance' = [balance EXCEPT ![bf.w] = balance[bf.w] - bf.amount_sent,
                                  ![deal.escrow] = balance[deal.escrow] + bf.amount_sent]
    /\ deal' = [deal EXCEPT !.auto = TRUE]
    /\ debits' = [debits EXCEPT !.forwarded = @ + bf.amount_sent]
    /\ bf' = Idle
    /\ UNCHANGED <<owned, prompts, msgs, withdrawConv, registered, wallets, pending, mon, chain, disputes, payouts, lock,
                   hung, handler, dispConv, sweep, deposits, event>>

\* ------------------------------------------------------ full-sweep monitor
\* abs(blockchain_balance - db_balance) > 1e-8, db_balance being the
\* wallet_monitoring.current_balance read at the start of the cycle
balance_changed(blockchain_balance, db_balance) ==
    blockchain_balance - db_balance > 1 \/ db_balance - blockchain_balance > 1

\* monitor_all_wallets_callback: the chain query of one monitored wallet.
\* Only the sweep writes wallet_monitoring, so the comparison the task makes
\* when it resumes has the outcome it has here; an unchanged balance ends
\* the visit of the wallet without a write to balances.
SweepQuery(w) ==
    /\ LoopRuns
    /\ sweep.pc = "idle"
    /\ w \in wallets
    /\ sweep' = IF balance_changed(chain[w], mon[w])
                THEN [pc |-> "write", w |-> w, blockchain_balance |-> chain[w]]
                ELSE Idle
    /\ UNCHANGED <<owned, prompts, msgs, withdrawConv, debits, registered, wallets, balance, pending, mon, chain, deal, disputes,
                   payouts, lock, hung, handler, dispConv, bf, deposits, event>>

\* the task resumes: wallet_monitoring and wallets.balance are overwritten
\* with the observed value
SweepWrite ==
    /\ LoopRuns
    /\ sweep.pc = "write"
    /\ mon' = [mon EXCEPT ![sweep.w] = sweep.blockchain_balance]
    /\ balance' = [balance EXCEPT ![sweep.w] = sweep.blockchain_balance]
    /\ sweep' = Idle
    /\ UNCHANGED <<owned, prompts, msgs, withdrawConv, debits, registered, wallets, pending, chain, deal, disputes, payouts, lock,
                   hung, handler, dispConv, bf, deposits, event>>

\* ------------------------------------------ settlement functions, stepwise
\* A user with a wallet whose address holds B satoshis, the ledger in line
\* with the chain; nothing else has happened.
SettleInit ==
    /\ registered = {Initiator}
    /\ wallets = {UserWallet(Initiator)}
    /\ \E B \in Balances :
          /\ chain = [w \in Wallets |-> IF w = UserWallet(Initiator) THEN B ELSE 0]
          /\ balance = chain
          /\ mon = chain
    /\ pending = [w \in Wallets |-> 0]
    /\ deal = NoDeal
    /\ disputes = FALSE
    /\ payouts = {}
    /\ lock = "free"
    /\ hung = FALSE
    /\ handler = Idle
    /\ dispConv = [u \in Users |-> FALSE]
    /\ bf = Idle
    /\ sweep = Idle
    /\ deposits = 0
    /\ msgs = <<>>
    /\ debits = NoDebits
    /\ withdrawConv = NoUser
    /\ owned = [u \in Users |-> IF u = Initiator THEN 1 ELSE 0]
    /\ prompts = [u \in Users |-> 0]
    /\ event = NoEvent

\* get_btc_balance_from_blockchain on an address holding B while the providers
\* in up answer: the first answer in list order, None when none answers
get_btc_balance_from_blockchain(B, up) ==
    LET answering == {i \in DOMAIN apis : apis[i] \in up}
    IN IF answering = {}
       THEN [failed |-> TRUE, value |-> 0, by |-> "none"]
       ELSE [failed |-> FALSE, value |-> B,
             by |-> apis[CHOOSE i \in answering : \A j \in answering : i <= j]]

\* get_utxos: one request to blockstream.info; a status other than 200 and an
\* exception both return the empty list
get_utxos(B, up) ==
    IF "Blockstream" \in up
    THEN [failed |-> FALSE, value |-> B, by |-> "Blockstream"]
    ELSE [failed |-> FALSE, value |-> 0, by |-> "none"]

\* the settlement function op applied to the unspent value B
settle(op, B, amount_btc, net) ==
    CASE op = "max"     -> send_max_btc_auto(B, net)
      [] op = "exact"   -> send_specific_btc_amount(B, amount_btc, net)
      [] op = "split95" -> send_batch_95_5_split(B, net)
      [] OTHER          -> send_dispute_refund_50_50(B, net)

\* the outcomes of a settlement function's own validation
ValidationErrors ==
    {"fee_too_low", "below_dust", "insufficient", "seller_below_dust", "fee_below_dust"}

\* has_pending_transactions: the user is seller or buyer of a PENDING or
\* DISPUTED deal
has_pending_transactions(d, u) ==
    d.status \in {"PENDING", "DISPUTED"} /\ u \in {d.seller, d.buyer}

\* the settlement functions a withdrawal can call
WithdrawOps == {"max", "exact"}

\* withdraw_command: the conversation starts unless the user has a pending
\* deal or no wallet; the wallet and the amount are chosen in its next steps
WithdrawCommand(u) ==
    /\ LoopFree
    /\ event = NoEvent
    /\ withdrawConv = NoUser
    /\ u \in registered
    /\ ~has_pending_transactions(deal, u)
    /\ UserWallet(u) \in wallets
    /\ withdrawConv' = u
    /\ UNCHANGED <<owned, prompts, msgs, debits, registered, wallets, balance, pending, mon, chain, deal,
                   disputes, payouts, lock, hung, handler, dispConv, bf, sweep, deposits,
                   event>>

\* a settlement function is called on the user's wallet: by enter_wallet_address
\* for a withdrawal (max, or the amount accepted by enter_withdraw_amount,
\* which refuses an amount above the ledger balance), or as a split
SettleCall(op, amount_btc) ==
    /\ LoopFree
    /\ IF op \in WithdrawOps THEN withdrawConv # NoUser
                             ELSE event = NoEvent /\ withdrawConv = NoUser
    /\ LET wallet_id == IF op \in WithdrawOps THEN UserWallet(withdrawConv)
                        ELSE UserWallet(Initiator)
       IN /\ wallet_id \in wallets
          /\ op = "exact" => amount_btc <= balance[wallet_id]
          /\ handler' = [pc |-> "utxos", op |-> op, w |-> wallet_id,
                         amount |-> IF op = "exact" THEN amount_btc ELSE 0]
    /\ UNCHANGED <<owned, prompts, msgs, withdrawConv, debits, registered, wallets, balance, pending, mon, chain, deal, disputes,
                   payouts, lock, hung, dispConv, bf, sweep, deposits, event>>

\* the function building the transaction before it checks the amounts
SettleUtxos_buildFirst(up) ==
    /\ handler.pc = "utxos"
    /\ LET utxos == get_utxos(chain[handler.w], up)
           r == settle(handler.op, utxos.value, handler.amount, TRUE)
           call == [op |-> handler.op, w |-> handler.w, amount |-> handler.amount,
                    B |-> chain[handler.w], up |-> up, query |-> utxos,
                    result |-> r, built |-> utxos.value > 0,
                    submissions |-> 0]
       IN handler' = call @@ [pc |-> IF r.ok THEN "build" ELSE "return"]
    /\ UNCHANGED <<owned, prompts, msgs, withdrawConv, debits, registered, wallets, balance, pending, mon, chain, deal, disputes,
                   payouts, lock, hung, dispConv, bf, sweep, deposits, event>>

\* get_utxos and the checks every settlement function makes before it builds;
\* up: the providers that answer
SettleUtxos(up) ==
    /\ handler.pc = "utxos"
    /\ LET utxos == get_utxos(chain[handler.w], up)
           r == settle(handler.op, utxos.value, handler.amount, TRUE)
           call == [op |-> handler.op, w |-> handler.w, amount |-> handler.amount,
                    B |-> chain[handler.w], up |-> up, query |-> utxos,
                    result |-> r, built |-> FALSE,
                    submissions |-> 0]
       IN handler' = call @@ [pc |-> IF r.ok THEN "build" ELSE "return"]
    /\ UNCHANGED <<owned, prompts, msgs, withdrawConv, debits, registered, wallets, balance, pending, mon, chain, deal, disputes,
                   payouts, lock, hung, dispConv, bf, sweep, deposits, event>>

\* build_segwit_transaction: builds and signs; an exception (for instance a
\* destination address it cannot decode) ends the call with an error
SettleBuild(built_ok) ==
    /\ handler.pc = "build"
    /\ handler' = IF built_ok
                  THEN [handler EXCEPT !.pc = "broadcast", !.built = TRUE]
                  ELSE [handler EXCEPT !.pc = "return",
                                       !.result = [@ EXCEPT !.ok = FALSE, !.error = "exception"]]
    /\ UNCHANGED <<owned, prompts, msgs, withdrawConv, debits, registered, wallets, balance, pending, mon, chain, deal, disputes,
                   payouts, lock, hung, dispConv, bf, sweep, deposits, event>>

\* broadcast_transaction: one POST; net: the provider accepts the transaction
SettleBroadcast(net) ==
    /\ handler.pc = "broadcast"
    /\ handler' = [handler EXCEPT
                      !.pc = "return",
                      !.submissions = @ + 1,
                      !.result = IF net THEN @
                                 ELSE [@ EXCEPT !.ok = FALSE, !.error = "broadcast"]]
    /\ chain' = IF net
                THEN [chain EXCEPT ![handler.w] =
                         IF handler.op = "exact" THEN handler.result.change ELSE 0]
                ELSE chain
    /\ UNCHANGED <<owned, prompts, msgs, withdrawConv, debits, registered, wallets, balance, pending, mon, deal, disputes,
                   payouts, lock, hung, dispConv, bf, sweep, deposits, event>>

\* enter_wallet_address taking the amount off the ledger whatever the result
SettleReturn_debitAlways ==
    /\ handler.pc = "return"
    /\ balance' = IF handler.op \in {"max", "exact"}
                  THEN [balance EXCEPT ![handler.w] =
                           @ - (handler.result.amount_sent + MAX_FEE)]
                  ELSE balance
    /\ event' = [op |-> "settle", fn |-> handler.op, amount |-> handler.amount,
                 B |-> handler.B, up |-> handler.up, query |-> handler.query,
                 result |-> handler.result, built |-> handler.built,
                 submissions |-> handler.submissions]
    /\ handler' = Idle
    /\ withdrawConv' = NoUser
    /\ UNCHANGED <<owned, prompts, msgs, debits, registered, wallets, pending, mon, chain, deal, disputes,
                   payouts, lock, hung, dispConv, bf, sweep, deposits>>

\* the result returns to the caller; enter_wallet_address takes what was sent
\* and the fee off the ledger balance when the withdrawal succeeded
SettleReturn ==
    /\ handler.pc = "return"
    /\ balance' = IF handler.op \in {"max", "exact"} /\ handler.result.ok
                  THEN [balance EXCEPT ![handler.w] =
                           @ - (handler.result.amount_sent + handler.result.fee)]
                  ELSE balance
    /\ event' = [op |-> "settle", fn |-> handler.op, amount |-> handler.amount,
                 B |-> handler.B, up |-> handler.up, query |-> handler.query, result |-> handler.result, built |-> handler.built,
                 submissions |-> handler.submissions]
    /\ handler' = Idle
    /\ withdrawConv' = NoUser
    /\ UNCHANGED <<owned, prompts, msgs, debits, registered, wallets, pending, mon, chain, deal, disputes,
                   payouts, lock, hung, dispConv, bf, sweep, deposits>>

\* the chain balance of the wallet is queried, as the monitors do for a
\* monitored address; up: the providers that answer
BalanceQuery(up) ==
    /\ LoopFree
    /\ event = NoEvent
    /\ withdrawConv = NoUser
    /\ event' = [op |-> "balance_query", B |-> chain[UserWallet(Initiator)], up |-> up,
                 query |-> get_btc_balance_from_blockchain(chain[UserWallet(Initiator)], up)]
    /\ UNCHANGED <<owned, prompts, msgs, withdrawConv, debits, registered, wallets, balance, pending, mon, chain, deal, disputes,
                   payouts, lock, hung, handler, dispConv, bf, sweep, deposits>>

SettleNext ==
    \/ \E u \in Users : WithdrawCommand(u)
    \/ \E op \in SettleOps, amount_btc \in WithdrawAmounts : SettleCall(op, amount_btc)
    \/ \E up \in SUBSET Providers : SettleUtxos(up)
    \/ \E up \in SUBSET Providers : BalanceQuery(up)
    \/ \E built_ok \in BOOLEAN : SettleBuild(built_ok)
    \/ \E net \in BOOLEAN : SettleBroadcast(net)
    \/ SettleReturn

SettleSpec == SettleInit /\ [][SettleNext]_vars

\* ------------------------------------------------ escrow-threshold monitor
\* balance_btc >= threshold_99, threshold_99 = (amount + fee_amount) * 0.99
EscrowFunded(d, balance_btc) == 100 * balance_btc >= 99 * (d.amount + d.fee)

\* monitor_intermediary_wallets_callback, one cycle over the PENDING deal:
\* net: a chain provider answers the balance query; sent: send_message to
\* the group succeeds; recorded: the UPDATE and commit that follow the
\* message succeed (their failure is caught and logged like a send failure)
EscrowCheck(net, sent, recorded) ==
    /\ LoopRuns
    /\ deal # NoDeal
    /\ deal.status = "PENDING"
    /\ deal.group
    /\ Len(msgs) < MaxMessages
    /\ LET balance_btc == chain[deal.escrow]
       IN IF ~net \/ ~sent THEN
               UNCHANGED <<deal, msgs>>
          ELSE IF EscrowFunded(deal, balance_btc) /\ ~deal.deposit_99_notified THEN
               /\ msgs' = Append(msgs, [kind |-> "funded", balance |-> balance_btc])
               /\ deal' = IF recorded THEN [deal EXCEPT !.deposit_99_notified = TRUE]
                          ELSE deal
          ELSE IF /\ balance_btc > 0
                  /\ ~EscrowFunded(deal, balance_btc)
                  /\ balance_changed(balance_btc, deal.last_partial_balance_notified) THEN
               /\ msgs' = Append(msgs, [kind |-> "partial", balance |-> balance_btc])
               /\ deal' = IF recorded
                          THEN [deal EXCEPT !.last_partial_balance_notified = balance_btc]
                          ELSE deal
          ELSE UNCHANGED <<deal, msgs>>
    /\ UNCHANGED <<owned, prompts, debits, withdrawConv, registered, wallets, balance, pending, mon, chain, disputes, payouts,
                   lock, hung, handler, dispConv, bf, sweep, deposits, event>>

\* --------------------------------------------------------------------- Next
Next ==
    \/ \E u \in Users : Register(u)
    \/ \E u \in Users : CreateWallet(u)
    \/ \E w \in Wallets, a \in DepositAmounts : Deposit(w, a)
    \/ \E role \in Roles, amount \in Amounts, db \in CreateOutcomes :
          CreateDeal(role, amount, db)
    \/ \E net \in BOOLEAN : CreateSend(net)
    \/ \E db \in CreateOutcomes : CreateResume(db)
    \/ \E u \in Users, db \in DbOutcomes : Accept(u, db)
    \/ \E u \in Users : Decline(u)
    \/ \E u \in Users : Cancel(u)
    \/ \E u \in Users, net \in BOOLEAN : Release(u, net)
    \/ \E u \in Users : DisputeSelect(u)
    \/ \E u \in Users : DisputeEvidence(u)
    \/ \E resolution \in Resolutions, net \in BOOLEAN : ResolveDispute(resolution, net)
    \/ BFStart
    \/ \E net \in BOOLEAN : BFQuery(net)
    \/ \E net \in BOOLEAN : BFSend(net)
    \/ \E net \in BOOLEAN : BFBroadcast(net)
    \/ BFWrite
    \/ \E w \in Wallets : SweepQuery(w)
    \/ SweepWrite
    \/ \E net \in BOOLEAN, sent \in BOOLEAN, recorded \in BOOLEAN :
          EscrowCheck(net, sent, recorded)

Spec == Init /\ [][Next]_vars

\* The job queue runs the buyer-forward task again and again (run_once at
\* the end of every cycle) and the chain provider answers its calls: a cycle
\* whose query is answered is not postponed forever, a transfer whose
\* broadcast can succeed is not refused forever, and the task resumes after
\* its transfer. The full sweep, rescheduled the same way, resumes after its
\* chain query. The escrow-threshold task is rescheduled the same way, and a
\* cycle in which the provider and the chat answer and the database accepts
\* the write is not postponed forever.
MonitorFairness ==
    /\ WF_vars(BFStart)
    /\ SF_vars(BFQuery(TRUE))
    /\ SF_vars(BFSend(TRUE))
    /\ SF_vars(BFBroadcast(TRUE))
    /\ WF_vars(BFWrite)
    /\ WF_vars(SweepWrite)
    /\ SF_vars(EscrowCheck(TRUE, TRUE, TRUE))

FairSpec == Init /\ [][Next]_vars /\ MonitorFairness

\* ---------------------------------------------------- transaction builder
\* A destination address as the decoder sees it: whether bech32_decode and
\* convertbits accept the string (lower or upper case, known characters,
\* bech32 checksum, no padding error), its witness version data[0] and the
\* number of bytes of its witness program.
WitnessVersions == {0, 1, 16, 17}
ProgramLengths == {1, 2, 20, 32, 40, 41}
Addresses == [decodes : BOOLEAN, witver : WitnessVersions, proglen : ProgramLengths]
None == [none |-> TRUE]

\* decode_bech32_address: the witness program, or None
decode_bech32_address(address) ==
    IF ~address.decodes THEN None
    ELSE IF address.proglen < 2 \/ address.proglen > 40 THEN None
    ELSE IF address.witver > 16 THEN None
    ELSE [none |-> FALSE, len |-> address.proglen]

\* script_pubkey = b'\x00\x14' + witness_program: the version opcode, the
\* push opcode and the number of bytes that follow it
script_pubkey(witness_program) ==
    [version |-> 0, push |-> 20, bytes |-> witness_program.len]

\* the stand-in values of r and s of a signature
Scalars == 1 .. CurveOrder - 1

\* make_canonical_signature without the replacement of a high s
make_canonical_signature_asSigned(sig) == sig

\* make_canonical_signature: s above half the order is replaced by order - s
make_canonical_signature(sig) ==
    LET half_order == CurveOrder \div 2
    IN IF sig.s > half_order THEN [r |-> sig.r, s |-> CurveOrder - sig.s] ELSE sig

\* build_segwit_transaction is called with one output to address and the
\* unspent outputs of the source address
BuildCall(address, inputs) ==
    /\ handler = Idle
    /\ event = NoEvent
    /\ handler' = [pc |-> "outputs", address |-> address, inputs |-> inputs]
    /\ UNCHANGED <<owned, prompts, msgs, withdrawConv, debits, registered, wallets, balance, pending, mon, chain, deal, disputes,
                   payouts, lock, hung, dispConv, bf, sweep, deposits, event>>

\* the outputs loop: the address is decoded and the script assembled; adding
\* None to the two opcode bytes raises TypeError, which ends the send
\* operation with an error
BuildOutputs ==
    /\ handler.pc = "outputs"
    /\ LET witness_program == decode_bech32_address(handler.address)
       IN IF witness_program = None
          THEN /\ handler' = Idle
               /\ event' = [op |-> "build", res |-> "exception",
                            address |-> handler.address]
          ELSE /\ handler' = [pc |-> "sign", address |-> handler.address,
                              inputs |-> handler.inputs,
                              script |-> script_pubkey(witness_program),
                              signed |-> <<>>, witness |-> <<>>]
               /\ UNCHANGED event
    /\ UNCHANGED <<owned, prompts, msgs, withdrawConv, debits, registered, wallets, balance, pending, mon, chain, deal, disputes,
                   payouts, lock, hung, dispConv, bf, sweep, deposits>>

\* the signing loop, one input: sk.sign_digest returns (r, s), the canonical
\* form of which goes into the witness
BuildSign(r, s) ==
    /\ handler.pc = "sign"
    /\ Len(handler.witness) < handler.inputs
    /\ handler' = [handler EXCEPT
                      !.signed = Append(@, [r |-> r, s |-> s]),
                      !.witness = Append(@, make_canonical_signature([r |-> r, s |-> s]))]
    /\ UNCHANGED <<owned, prompts, msgs, withdrawConv, debits, registered, wallets, balance, pending, mon, chain, deal, disputes,
                   payouts, lock, hung, dispConv, bf, sweep, deposits, event>>

\* the raw transaction is returned
BuildReturn ==
    /\ handler.pc = "sign"
    /\ Len(handler.witness) = handler.inputs
    /\ handler' = Idle
    /\ event' = [op |-> "build", res |-> "ok", address |-> handler.address,
                 script |-> handler.script, signed |-> handler.signed,
                 witness |-> handler.witness]
    /\ UNCHANGED <<owned, prompts, msgs, withdrawConv, debits, registered, wallets, balance, pending, mon, chain, deal, disputes,
                   payouts, lock, hung, dispConv, bf, sweep, deposits>>

BuilderNext ==
    \/ \E address \in Addresses, inputs \in 1 .. MaxInputs : BuildCall(address, inputs)
    \/ BuildOutputs
    \/ \E r \in Scalars, s \in Scalars : BuildSign(r, s)
    \/ BuildReturn

BuilderSpec == Init /\ [][BuilderNext]_vars

\* the bot with the withdrawal conversation among its handlers, withdrawals
\* being made before a deal exists
MoneySpec == Init /\ [][Next \/ (deal = NoDeal /\ SettleNext)]_vars

\* registration, wallets, deposits, the full sweep, deal creation and the
\* withdrawal conversation
WithdrawNext ==
    \/ \E u \in Users : Register(u)
    \/ \E u \in Users : CreateWallet(u)
    \/ \E w \in Wallets, a \in DepositAmounts : Deposit(w, a)
    \/ \E w \in Wallets : SweepQuery(w)
    \/ SweepWrite
    \/ \E role \in Roles, amount \in Amounts, db \in CreateOutcomes :
          CreateDeal(role, amount, db)
    \/ \E net \in BOOLEAN : CreateSend(net)
    \/ \E db \in CreateOutcomes : CreateResume(db)
    \/ SettleNext

WithdrawSpec == Init /\ [][WithdrawNext]_vars

\* ------------------------------------------------ wallet creation requests
\* wallet_callback, data = create_wallet_BTC: get_user_wallets finds no BTC
\* row of the user and the message with the "SegWit" button is shown
WalletPrompt(u) ==
    /\ LoopFree
    /\ u \in registered
    /\ owned[u] = 0
    /\ prompts[u] < MaxPrompts
    /\ prompts' = [prompts EXCEPT ![u] = @ + 1]
    /\ UNCHANGED <<owned, msgs, withdrawConv, debits, registered, wallets, balance, pending, mon,
                   chain, deal, disputes, payouts, lock, hung, handler, dispConv, bf, sweep,
                   deposits, event>>

\* wallet_callback, data = confirm_wallet_BTC_segwit: create_wallet inserts a
\* row, process_pending_recipient runs and the message with the button is
\* replaced by the confirmation
ConfirmWallet(u) ==
    /\ LoopFree
    /\ prompts[u] > 0
    /\ owned[u] < MaxWalletRows
    /\ prompts' = [prompts EXCEPT ![u] = @ - 1]
    /\ owned' = [owned EXCEPT ![u] = @ + 1]
    /\ wallets' = wallets \cup {UserWallet(u)}
    /\ LET r == process_pending_recipient(deal, pending, u, wallets')
       IN deal' = r[1] /\ pending' = r[2]
    /\ UNCHANGED <<msgs, withdrawConv, debits, registered, balance, mon, chain, disputes, payouts,
                   lock, hung, handler, dispConv, bf, sweep, deposits, event>>

WalletNext ==
    \/ \E u \in Users : Register(u)
    \/ \E u \in Users : WalletPrompt(u)
    \/ \E u \in Users : ConfirmWallet(u)
    \/ \E w \in Wallets, a \in DepositAmounts : Deposit(w, a)
    \/ \E w \in Wallets : SweepQuery(w)
    \/ SweepWrite
    \/ \E role \in Roles, amount \in Amounts, db \in CreateOutcomes :
          CreateDeal(role, amount, db)
    \/ \E net \in BOOLEAN : CreateSend(net)
    \/ \E db \in CreateOutcomes : CreateResume(db)

WalletSpec == Init /\ [][WalletNext]_vars

\* ================================================================== claims

\* C1: a release request by the buyer of a PENDING deal proceeds to payout
\* only if the escrow wallet's balance is at least 0.99 x (amount + fee);
\* one satoshi below that threshold (20789 for amount 20000, fee 1000) it
\* is rejected.
C1_ReleaseThresholdIncludesFee ==
    [][\A p \in payouts' \ payouts :
          p.kind = "release" =>
              100 * balance[deal.escrow] >= 99 * (deal.amount + deal.fee)]_vars

\* C2: a release payout is made only when the caller is the deal's buyer, the
\* deal is PENDING at the moment of the payout, the seller has a wallet for
\* the asset and no dispute has been opened on the deal.
C2_ReleaseOnlyByBuyerWhilePending ==
    [][\A p \in payouts' \ payouts :
          p.kind = "release" =>
              /\ p.by = deal.buyer
              /\ deal.status = "PENDING"
              /\ UserWallet(deal.seller) \in wallets
              /\ p.to = UserWallet(deal.seller)
              /\ ~disputes]_vars

\* C2 witness: the buyer's release of a PENDING deal has paid out from escrow
C2_Witness ==
    \E p \in payouts : p.kind = "release" /\ p.by = deal.buyer /\ p.src = deal.escrow

\* C3: once the 95/5 payout of a release has been broadcast, the release has
\* ended with the deal's status committed as COMPLETED (the handler has no
\* await between the payout and the status update, so every state that
\* holds the payout holds the handler's outcome).
C3_PayoutLeadsToCompleted ==
    \A p \in payouts : p.kind = "release" => deal.status = "COMPLETED"

\* C4: the ledger balances of the initiator's, the counterpart's and the
\* escrow wallet sum to the same value immediately before and immediately
\* after the deal's transition to CANCELLED, by decline and by cancel.
C4_CancellationConserves ==
    [][(deal.status = "PENDING" /\ deal'.status = "CANCELLED") =>
          balance'["w1"] + balance'["w2"] + balance'["esc"]
              = balance["w1"] + balance["w2"] + balance["esc"]]_vars

\* C5: a REFUNDED resolution spends the deal's escrow wallet and no other
\* wallet, half to the seller's wallet and half to the fee wallet.
C5_RefundSpendsEscrow ==
    \A p \in payouts :
        p.kind = "dispute" =>
            /\ p.src = deal.escrow
            /\ p.to = UserWallet(deal.seller)
            /\ p.fee_wallet_amount - p.seller_amount \in {0, 1}

\* C6: a deal's status changes only along PENDING -> {COMPLETED, CANCELLED,
\* EXPIRED, DISPUTED} and DISPUTED -> resolution outcome; a COMPLETED,
\* CANCELLED, EXPIRED or resolved deal never changes status again.
C6_StatusEdges ==
    [][deal'.status # deal.status =>
          \/ deal.status = "NONE" /\ deal'.status = "PENDING"
          \/ deal.status = "PENDING"
               /\ deal'.status \in {"COMPLETED", "CANCELLED", "EXPIRED", "DISPUTED"}
          \/ deal.status = "DISPUTED" /\ deal'.status \in Resolutions]_vars

\* C7: the confirmed ledger balance of every wallet is never negative.
C7_BalancesNonNegative ==
    \A w \in Wallets : balance[w] >= 0

\* C8: accept is applied only if the buyer's confirmed balance is at least
\* the amount; it debits the buyer's wallet by the amount and credits the
\* deal's escrow wallet by the same amount.
C8_AcceptMovesAmountToEscrow ==
    [][\A u \in Users :
          (Accept(u, "ok") /\ event' = Reply("accept", u, "ok")) =>
              /\ balance[UserWallet(u)] >= deal.amount
              /\ balance'[UserWallet(u)] = balance[UserWallet(u)] - deal.amount
              /\ balance'[deal.escrow] = balance[deal.escrow] + deal.amount]_vars

\* C9: at creation the deduction follows the case table (seller: 0; buyer
\* with balance 0: 0; buyer with 0 < balance < total: what send_max forwards
\* of the balance; buyer with balance >= total: total), and the amount
\* debited from the initiator's ledger, the recorded deducted_amount and the
\* amount forwarded to the escrow wallet are equal.
C9_CreationDeduction ==
    (event.op = "create" /\ event.res = "ok") =>
        LET total == deal.amount + deal.fee
        IN /\ event.debited = deal.deducted
           /\ event.forwarded = deal.deducted
           /\ (event.role = "seller" => deal.deducted = 0)
           /\ (event.role = "buyer" /\ event.bal = 0 => deal.deducted = 0)
           /\ (event.role = "buyer" /\ 0 < event.bal /\ event.bal < total
                 => deal.deducted = send_max_btc_auto(event.bal, TRUE).amount_sent)
           /\ (event.role = "buyer" /\ event.bal >= total => deal.deducted = total)

C11_DeclineByCounterpartyRefundsDeducted ==
    [][(deal' # deal \/ balance' # balance \/ pending' # pending) =>
          \A u \in Users :
              Decline(u) =>
                  /\ u # deal.initiator
                  /\ deal.status = "PENDING"
                  /\ deal'.status = "CANCELLED"
                  /\ balance' = [balance EXCEPT ![UserWallet(deal.initiator)] =
                                     balance[UserWallet(deal.initiator)] + deal.deducted]]_vars

\* C12: on the transition to CANCELLED (decline or cancel) the pending credit
\* of the creation is removed from the counterpart's wallet, whose pending
\* balance returns to its value before the creation (0: only the deal's
\* bookkeeping writes pending balances), and no other wallet's pending
\* balance changes.
C12_CancellationRemovesCounterpartPending ==
    [][(deal.status = "PENDING" /\ deal'.status = "CANCELLED") =>
          LET counterpart == IF deal.initiator = deal.buyer THEN deal.seller
                             ELSE deal.buyer
          IN \A w \in Wallets :
                 pending'[w] = IF w = UserWallet(counterpart) THEN 0 ELSE pending[w]]_vars

C14_ForwardSpendsBuyerWallet ==
    bf.pc # "idle" => bf.w = UserWallet(deal.buyer)

\* C15: the buyer-forward task goes on to a transfer only when the on-chain
\* balance it read is above 250 sat; it chooses send_max when that balance
\* is at most the required total (amount + fee) and an exact send otherwise;
\* an exact send transfers the required total, and no forward transfers more
\* than the required total.
C15_ForwardMethodAndAmount ==
    [][bf' # bf =>
          LET total == deal.amount + deal.fee
          IN /\ (bf.pc = "query" /\ bf'.pc = "send") =>
                    /\ chain[bf'.w] > FORWARD_MIN
                    /\ bf'.method = IF chain[bf'.w] <= total THEN "max" ELSE "exact"
             /\ (bf.pc = "broadcast" /\ bf'.pc = "write") =>
                    /\ bf'.amount_sent <= total
                    /\ bf.method = "exact" => bf'.amount_sent = total]_vars

\* C16: balance mutations are lock-guarded read-modify-writes, so no writer
\* commits a change to a wallet's balance between the read from which
\* another writer computed its update of that wallet and the write of that
\* update: while the full sweep holds a value to write to a wallet, that
\* wallet's balance is not changed by anyone else.
C16_NoCommitBetweenReadAndWrite ==
    [][(sweep.pc = "write" /\ sweep'.pc = "write") =>
           balance'[sweep.w] = balance[sweep.w]]_vars

\* C17: the ledger writes of one mutation are committed all or none, also
\* when a database statement fails midway: an accept leaves the balances as
\* they were or applies both the buyer debit and the escrow credit; the
\* buyer-forward write applies its debit, its credit and the auto_transferred
\* flag together; a decline or cancel changes the balance and the pending
\* balance together or neither.
C17_LedgerWritesAllOrNothing ==
    [][(balance' # balance \/ pending' # pending \/ deal' # deal) =>
          /\ \A u \in Users, db \in DbOutcomes :
                Accept(u, db) =>
                    LET b1 == subtract_wallet_balance(balance, UserWallet(u), deal.amount)
                        w  == AcceptCreditWallet(deal)
                    IN balance' \in {balance, [b1 EXCEPT ![w] = b1[w] + deal.amount]}
          /\ BFWrite =>
                /\ deal'.auto
                /\ balance'[bf.w] - balance[bf.w] = -bf.amount_sent
                      \/ bf.w = deal.escrow
                /\ balance'[deal.escrow] - balance[deal.escrow] = bf.amount_sent
                      \/ bf.w = deal.escrow
          /\ \A u \in Users :
                (Decline(u) \/ Cancel(u)) =>
                    (balance' # balance <=> pending' # pending)]_vars

\* C18: the write lock is never held while a network call is in progress:
\* not during the chain query or the transfer of the buyer-forward task and
\* not during the transfer of a deal creation.
C18_NoNetworkCallUnderLock ==
    lock # "free" => bf.pc \notin {"query", "send", "broadcast"}
                        /\ handler.pc # "create_send"

\* C19: no network call runs on the scheduling thread: every broadcast that
\* spends a wallet's on-chain funds is the step of a worker thread to which
\* a suspended task or handler dispatched it (the buyer-forward transfer or
\* the transfer of a deal creation), never part of a handler's own step.
C19_BroadcastsRunInWorkerThreads ==
    [][(\E w \in Wallets : chain'[w] < chain[w]) =>
           \/ bf.pc = "broadcast" /\ bf'.pc # "broadcast"
           \/ handler.pc = "create_send" /\ handler'.pc # "create_send"]_vars

\* C20: every monitor task is rescheduled at the end of each cycle, whatever
\* the cycle's outcome, so the monitors run infinitely often: again and again
\* the scheduler is running with the buyer-forward task at the start of a
\* cycle, and likewise with the full sweep.
C20_MonitorsRunInfinitelyOften ==
    /\ []<>(LoopRuns /\ bf.pc = "idle")
    /\ []<>(LoopRuns /\ sweep.pc = "idle")

\* C21: unspent outputs are not reserved between build and broadcast: an
\* operation can spend the outputs from which another operation has already
\* built its transaction after passing validation. The chain accepts only
\* the first of the two: the later broadcast is rejected, it is followed by
\* no ledger write, and no output is spent twice.
C21_OverlappingSpendIsRejected ==
    /\ [][(bf.pc = "broadcast" /\ bf.spent) => bf'.pc # "write"]_vars
    /\ [](\A w \in Wallets : chain[w] >= 0)

\* C21 witness: the buyer-forward task holds a transaction that passed
\* validation and was built from all outputs of its wallet, and a payout
\* broadcast by another operation has spent those outputs
C21_Witness ==
    /\ bf.pc = "broadcast" /\ bf.spent
    /\ \E p \in payouts : p.src = bf.w
    /\ chain[bf.w] < bf.utxos

\* C22: a full-sweep cycle whose chain query of a wallet succeeds leaves the
\* wallet's ledger balance within 1 satoshi of the observed on-chain balance:
\* a cycle that writes, writes the observed balance, and a cycle that ends
\* its visit of the wallet without a write does so only when the ledger
\* balance is already within 1 satoshi of the chain.
C22_SweepAlignsLedgerWithChain ==
    /\ [][(sweep.pc = "write" /\ sweep'.pc = "idle") =>
              ~balance_changed(sweep.blockchain_balance, balance'[sweep.w])]_vars
    /\ [](\A w \in wallets :
             (LoopRuns /\ sweep.pc = "idle" /\ ~balance_changed(chain[w], mon[w]))
                 => ~balance_changed(chain[w], balance[w]))

\* the "sufficiently funded" notifications in the group chat
FundedMessages == {i \in DOMAIN msgs : msgs[i].kind = "funded"}

\* a PENDING deal whose escrow balance reaches the threshold while the chat is
\* still followed
EscrowObservedFunded ==
    /\ deal.status = "PENDING"
    /\ EscrowFunded(deal, chain[deal.escrow])
    /\ Len(msgs) < MaxMessages

\* the notification was sent, or the deal is over, or the bot hangs
FundedNotifiedOrOver == deal.status # "PENDING" \/ FundedMessages # {} \/ hung

\* C23: for a PENDING deal with an escrow wallet, the "sufficiently funded"
\* notification is sent once the escrow-threshold task observes an escrow
\* balance of at least 0.99 x (amount + fee), and it is sent at most once in
\* the whole execution, also when the send or the recording of it fails in
\* some cycle.
C23_FundedNotifiedOnce ==
    /\ [](Cardinality(FundedMessages) <= 1)
    /\ EscrowObservedFunded ~> FundedNotifiedOrOver

\* C24: a "partial deposit" notification is sent only when the observed
\* escrow balance differs by more than 1 satoshi from the balance of the last
\* partial-deposit notification: no two successive partial-deposit
\* notifications report balances within 1 satoshi of each other.
C24_NoRepeatedPartialNotification ==
    \A i, j \in DOMAIN msgs :
        (/\ i < j
         /\ msgs[i].kind = "partial" /\ msgs[j].kind = "partial"
         /\ \A k \in DOMAIN msgs : (i < k /\ k < j) => msgs[k].kind # "partial")
            => balance_changed(msgs[j].balance, msgs[i].balance)

\* a call of settlement function fn has returned
Returned(fn) == event.op = "settle" /\ event.fn = fn

\* C25: send_max on a wallet holding B satoshis either fails or sends one
\* output with fee = min(250, B - 546), amount + fee = B and amount >= 546;
\* it fails whenever B is below the dust floor plus the minimum fee of 1.
C25_SendMaxSweepsTheBalance ==
    Returned("max") =>
        /\ event.result.ok =>
              /\ event.result.fee = Min(MAX_FEE, event.B - DUST)
              /\ event.result.amount_sent + event.result.fee = event.B
              /\ event.result.amount_sent >= DUST
              /\ event.result.change = 0
        /\ event.B < DUST + 1 => ~event.result.ok

C25_Witness ==
    /\ Returned("max")
    /\ event.result.ok
    /\ event.result.fee < MAX_FEE
    /\ chain[UserWallet(Initiator)] = 0

\* C26: send_exact(balance, amount) charges the 250-satoshi cap and succeeds
\* only if balance >= amount + fee; on success it sends the amount, returns
\* the change balance - amount - fee to the source address exactly when the
\* change is at least 546 satoshis and folds it into the fee otherwise, and
\* outputs plus effective fee equal the balance.
C26_SendExactSendsTheAmount ==
    (Returned("exact") /\ event.result.ok) =>
        LET change == event.B - event.amount - MAX_FEE
        IN /\ event.B >= event.amount + MAX_FEE
           /\ event.result.amount_sent = event.amount
           /\ change >= DUST => (event.result.change = change /\ event.result.fee = MAX_FEE)
           /\ change < DUST => (event.result.change = 0
                                   /\ event.result.fee = MAX_FEE + change)
           /\ event.result.amount_sent + event.result.change + event.result.fee = event.B

\* C27: a split of an escrow balance B (ratio 95% or 50%) uses network_fee =
\* min(250, B - 2*546), pays seller_amount = floor(ratio * (B - network_fee))
\* and fee_wallet_amount = the rest, the three adding up to B; when either
\* output would be below 546 satoshis the operation fails.
C27_SplitAddsUpToTheBalance ==
    \A fn \in {"split95", "split50"} :
        Returned(fn) =>
            LET pct == IF fn = "split95" THEN 95 ELSE 50
                network_fee == Min(MAX_FEE, event.B - 2 * DUST)
                seller_amount == (pct * (event.B - network_fee)) \div 100
                fee_wallet_amount == (event.B - network_fee) - seller_amount
            IN /\ event.result.ok =>
                     /\ event.result.transaction_fee = network_fee
                     /\ event.result.seller_amount = seller_amount
                     /\ event.result.fee_wallet_amount = fee_wallet_amount
                     /\ event.result.seller_amount + event.result.fee_wallet_amount
                            + event.result.transaction_fee = event.B
               /\ (seller_amount < DUST \/ fee_wallet_amount < DUST) => ~event.result.ok

C27_Witness ==
    /\ Returned("split95")
    /\ event.result.ok
    /\ event.result.fee_wallet_amount = DUST

\* C28: in every settlement function the validation comes before building,
\* signing and broadcasting: a call that failed its validation has built
\* nothing and submitted nothing, and a transaction is only ever built or
\* submitted for a spend that passed the validation.
C28_ValidationPrecedesBuilding ==
    /\ (event.op = "settle" /\ event.result.error \in ValidationErrors)
           => (~event.built /\ event.submissions = 0)
    /\ handler.pc \in {"build", "broadcast"}
           => settle(handler.op, handler.B, handler.amount, TRUE).ok
    /\ handler.pc = "return" /\ handler.result.error \in ValidationErrors
           => (~handler.built /\ handler.submissions = 0 /\ chain[handler.w] = handler.B)

C28_Witness ==
    /\ event.op = "settle"
    /\ event.result.error = "fee_below_dust"
    /\ ~event.built
    /\ event.B > 2 * DUST + MAX_FEE

\* the provider that answers first in priority order among those in up
FirstAnswering(up) ==
    apis[CHOOSE i \in DOMAIN apis : apis[i] \in up /\ \A j \in 1 .. i - 1 : apis[j] \notin up]

\* C29: a chain balance or UTXO query tries the providers in priority order
\* and returns the answer of the first that succeeds; it returns a failure
\* outcome exactly when all providers fail, never a zero balance or an empty
\* UTXO list in its place.
C29_QueryFailsOnlyWhenAllProvidersFail ==
    event.op \in {"settle", "balance_query"} =>
        /\ event.query.failed <=> event.up = {}
        /\ event.up # {} =>
              /\ event.query.value = event.B
              /\ event.query.by = FirstAnswering(event.up)

\* C30: a money-moving operation fails closed. The broadcaster submits a
\* transaction once; a transfer that fails while it is built or broadcast
\* leaves the chain, the ledger balances, the deal's status and its
\* auto_transferred flag as they were (creation-time forward, buyer-forward,
\* withdrawal), and the writes that follow a transfer (the REFUNDED status of
\* a dispute settlement, the completion of a release, auto_transferred) happen
\* only after an accepted broadcast.
C30_MoneyMovingOperationsFailClosed ==
    /\ [][/\ (handler.pc = "create_send" /\ handler'.pc = "create_resume"
                  /\ ~handler'.res.ok)
             => (chain' = chain /\ balance' = balance /\ deal' = deal)
          /\ (handler.pc = "create_resume" /\ handler' = Idle /\ ~handler.res.ok)
             => (chain' = chain /\ balance' = balance /\ deal' = deal)
          /\ (bf.pc \in {"send", "broadcast"} /\ bf' = Idle)
             => (chain' = chain /\ balance' = balance /\ deal' = deal)
          /\ (bf.pc = "broadcast" /\ bf'.pc = "broadcast") => bf'.utxos = bf.utxos
          /\ (bf.pc # "write" /\ bf'.pc = "write") => (bf.pc = "broadcast" /\ chain' # chain)
          /\ (deal.status # "NONE" /\ ~deal.auto /\ deal'.auto) => bf.pc = "write"
          /\ (handler.pc \in {"utxos", "build", "broadcast"} /\ handler'.pc = "return"
                  /\ ~handler'.result.ok)
             => (chain' = chain /\ balance' = balance /\ deal' = deal)
          /\ (handler.pc = "return" /\ handler' = Idle /\ ~handler.result.ok)
             => (chain' = chain /\ balance' = balance /\ deal' = deal)
          /\ (handler.pc = "broadcast" /\ handler' # handler)
             => (handler'.pc = "return" /\ handler'.submissions = 1)
          /\ (deal.status # "REFUNDED" /\ deal'.status = "REFUNDED") => chain' # chain
          /\ (~hung /\ hung') => chain' # chain
         ]_vars
    /\ [](handler.pc \in {"build", "broadcast", "return"} => handler.submissions <= 1)

C30_Witness ==
    /\ event.op = "settle"
    /\ event.fn = "max"
    /\ event.result.error = "broadcast"
    /\ event.built
    /\ event.submissions = 1
    /\ chain[UserWallet(Initiator)] = event.B
    /\ balance[UserWallet(Initiator)] = event.B

\* a script that is OP_0 followed by a push of exactly 20 bytes
IsP2WPKH(script) == script.version = 0 /\ script.push = 20 /\ script.bytes = 20

\* C31: every output script the builder emits is a P2WPKH script, OP_0 and a
\* push of exactly a 20-byte witness program, and an address that does not
\* decode to a 20-byte version-0 program never yields a built transaction.
C31_OutputScriptsAreP2WPKH ==
    /\ (event.op = "build" /\ event.res = "ok") =>
           /\ IsP2WPKH(event.script)
           /\ event.address.decodes
           /\ event.address.witver = 0
           /\ event.address.proglen = 20
    /\ handler.pc = "sign" => IsP2WPKH(handler.script)

\* C32: for every signature (r, s) produced while signing, the signature in
\* the witness is (r, s') with s' at most half the curve order, s' = s when s
\* is at most half the order and s' = order - s otherwise, and r unchanged.
C32_WitnessSignaturesAreLowS ==
    \A tx \in {handler, event} :
        (tx # Idle /\ tx # NoEvent /\ "witness" \in DOMAIN tx) =>
            /\ Len(tx.witness) = Len(tx.signed)
            /\ \A i \in DOMAIN tx.witness :
                  /\ tx.witness[i].r = tx.signed[i].r
                  /\ 2 * tx.witness[i].s <= CurveOrder
                  /\ tx.witness[i].s = IF 2 * tx.signed[i].s <= CurveOrder
                                       THEN tx.signed[i].s
                                       ELSE CurveOrder - tx.signed[i].s

C32_Witness ==
    /\ event.op = "build"
    /\ event.res = "ok"
    /\ Len(event.witness) = MaxInputs
    /\ event.signed[1].s = CurveOrder - 1
    /\ event.witness[1].s = 1
    /\ event.signed[2].s = event.witness[2].s

\* C33: no execution path acquires the process-wide write lock while it
\* holds it, and every acquisition is followed by its release: between the
\* steps of the handlers and tasks the lock is free and no operation is
\* blocked forever on it.
C33_WriteLockIsReleased == lock = "free" /\ ~hung

\* C34: for each deal at most one payout transaction (95/5 release or 50/50
\* dispute settlement) is ever broadcast from its funds, under any sequence
\* or repetition of release and dispute-resolve requests.
C34_AtMostOnePayoutPerDeal == Cardinality(payouts) <= 1

\* C35: for each deal accept's buyer debit and escrow credit are applied at
\* most once, however many times the buyer issues accept while the deal is
\* PENDING.
C35_AcceptAppliedAtMostOnce == debits.accepts <= 1

\* C36: no withdrawal transaction is broadcast from a user's wallet while
\* that user has a PENDING or DISPUTED deal, also when the deal was created
\* after the withdrawal conversation started and before the withdrawal is
\* sent.
C36_NoWithdrawalDuringADeal ==
    [][(/\ handler.pc = "broadcast"
        /\ handler'.pc = "return"
        /\ handler.op \in WithdrawOps
        /\ handler'.result.ok)
           => ~has_pending_transactions(deal, withdrawConv)]_vars

\* C37: the buyer-forward task broadcasts a transfer into the escrow wallet
\* only if, at the moment of the broadcast, the deal is still PENDING and
\* not marked auto_transferred.
C37_ForwardOnlyWhilePending ==
    [][(bf.pc = "broadcast" /\ bf'.pc = "write" /\ chain' # chain)
         => (deal.status = "PENDING" /\ ~deal.auto)]_vars

\* what the ledger has taken from the buyer's wallet row for the deal: the
\* deduction of confirm_transaction, the debits of accept and the debit of
\* the buyer-forward task
BuyerDebited ==
    (IF deal.buyer = deal.initiator THEN deal.deducted ELSE 0)
    + debits.accepts * deal.amount
    + (IF deal.wallet = UserWallet(deal.buyer) THEN debits.forwarded ELSE 0)

\* C38: for each deal the total debited from the buyer's ledger balance on
\* behalf of the deal (deduction at creation, accept, buyer-forward) never
\* exceeds the deal amount plus fee.
C38_BuyerDebitedAtMostTotal ==
    deal.status # "NONE" => BuyerDebited <= deal.amount + deal.fee

\* C39: when deal creation fails after the initiator's ledger balance was
\* debited (the recipient's pending credit fails or the deal record cannot
\* be created), the initiator's confirmed balance is back at the value it
\* had before the creation and no deal exists.
C39_FailedCreationRestoresBalance ==
    [][(/\ event' # event
        /\ event'.op = "create"
        /\ event'.res \in CreateFailures
        /\ event'.debited > 0)
           => (/\ deal' = NoDeal
               /\ balance'[UserWallet(Initiator)] = balance[UserWallet(Initiator)])]_vars

\* C40: each user owns at most one wallet per asset type, under any
\* interleaving or repetition of wallet-creation requests and of the
\* automatic wallet creation during deal creation.
C40_OneWalletPerUser == \A u \in Users : owned[u] <= 1

====
